---- MODULE Spec2Model ----
(***************************************************************************)
(* Model of process_covidtracking.py: GetData (JSON cache keyed by a       *)
(* date-stamped file name) and ExtractDataFrame (reshaping of the flat     *)
(* record list into a (state, date)-indexed table with a derived           *)
(* new_cases column).                                                      *)
(***************************************************************************)
EXTENDS Integers, Sequences, FiniteSets, TLC

VARIABLES
    \* ---- GetData: the file system, the remote feed, the clock
    fs,             \* file name -> text of the file, or NoFile
    feed,           \* what requests.get(url) would answer now
    today,          \* datetime.date.today()
    last,           \* observation of the latest GetData call
    opened_w,       \* file name -> number of times it was opened with 'w'
    first,          \* file name -> data returned by the call that created it
    \* ---- ExtractDataFrame: arguments, locals, position
    json_data,      \* argument: list of entries
    start_date,     \* argument: datetime.date
    pc,             \* "loop", "newcases", "done", "raised"
    i,              \* position of the for loop of line 82 (1-based)
    indices,        \* local: list of (state, date)
    data,           \* local: column name -> list of values
    all_locations,  \* local: list of states, then the np.unique of it
    df,             \* local: the DataFrame
    todo,           \* states the loop of line 107 has still to visit
    ret,            \* the returned (df, all_locations), or NoReturn
    \* ---- a second call of ExtractDataFrame on a reordering of the records
    run,            \* 1 or 2
    prev            \* what run 1 returned

fetchVars == <<fs, feed, today, last, opened_w, first>>
extractVars == <<json_data, start_date, pc, i, indices, data, all_locations, df, todo, ret>>
vars == <<fs, feed, today, last, opened_w, first,
          json_data, start_date, pc, i, indices, data, all_locations, df, todo, ret,
          run, prev>>

(***************************************************************************)
(* Values of a JSON field and of a table cell.                             *)
(***************************************************************************)
Num(n) == [k |-> "num", v |-> n]
None == [k |-> "None"]
NaN == [k |-> "nan"]

IsNum(x) == x.k = "num"

\* elementwise float arithmetic of numpy: nan propagates
Sub(a, b) == IF IsNum(a) /\ IsNum(b) THEN Num(a.v - b.v) ELSE NaN

(***************************************************************************)
(* The (DataFrame column, JSON field) pairs of lines 57-66.                *)
(***************************************************************************)
keys ==
    << <<"cum_positive", "positive">>,
       <<"cum_total", "total">>,
       <<"curr_hosp", "hospitalizedCurrently">>,
       <<"cum_hosp", "hospitalizedCumulative">>,
       <<"curr_icu", "inIcuCurrently">>,
       <<"cum_icu", "inIcuCumulative">>,
       <<"curr_vent", "onVentilatorCurrently">>,
       <<"cum_vent", "onVentilatorCumulative">>,
       <<"cum_death", "death">>,
       <<"new_death", "deathIncrease">> >>

Columns == {keys[n][1] : n \in DOMAIN keys}
SourceOf(col) == keys[CHOOSE n \in DOMAIN keys : keys[n][1] = col][2]

(***************************************************************************)
(* datetime.datetime.strptime(s, '%Y%m%d').date().  A string is a sequence *)
(* of one-character strings.  The format compiles to the regular           *)
(* expression                                                              *)
(*   (?P<Y>\d\d\d\d)(?P<m>1[0-2]|0[1-9]|[1-9])                             *)
(*   (?P<d>3[01]|[12]\d|0[1-9]|[1-9]| [1-9])                               *)
(* matched from the start of the string, alternatives tried in order; the  *)
(* match must then consume the whole string, and the fields must name a    *)
(* day of the calendar.                                                    *)
(***************************************************************************)
Digits == {"0", "1", "2", "3", "4", "5", "6", "7", "8", "9"}
NonZero == Digits \ {"0"}

DigitVal(c) ==
    CASE c = "0" -> 0 [] c = "1" -> 1 [] c = "2" -> 2 [] c = "3" -> 3
      [] c = "4" -> 4 [] c = "5" -> 5 [] c = "6" -> 6 [] c = "7" -> 7
      [] c = "8" -> 8 [] c = "9" -> 9

\* the character at position p, "" past the end
At(s, p) == IF p \in DOMAIN s THEN s[p] ELSE ""

RECURSIVE IntOf(_)
IntOf(s) == IF s = <<>> THEN 0
            ELSE 10 * IntOf(SubSeq(s, 1, Len(s) - 1)) + DigitVal(s[Len(s)])

\* number of characters group Y consumes at the start of s, 0 if it fails
YearLen(s) == IF \A p \in 1..4 : At(s, p) \in Digits THEN 4 ELSE 0

\* number of characters alternative a of group m consumes at p, 0 if it fails
MonthAlt(s, p, a) ==
    CASE a = 1 -> IF At(s, p) = "1" /\ At(s, p + 1) \in {"0", "1", "2"} THEN 2 ELSE 0
      [] a = 2 -> IF At(s, p) = "0" /\ At(s, p + 1) \in NonZero THEN 2 ELSE 0
      [] a = 3 -> IF At(s, p) \in NonZero THEN 1 ELSE 0

\* number of characters alternative a of group d consumes at p, 0 if it fails
DayAlt(s, p, a) ==
    CASE a = 1 -> IF At(s, p) = "3" /\ At(s, p + 1) \in {"0", "1"} THEN 2 ELSE 0
      [] a = 2 -> IF At(s, p) \in {"1", "2"} /\ At(s, p + 1) \in Digits THEN 2 ELSE 0
      [] a = 3 -> IF At(s, p) = "0" /\ At(s, p + 1) \in NonZero THEN 2 ELSE 0
      [] a = 4 -> IF At(s, p) \in NonZero THEN 1 ELSE 0
      [] a = 5 -> IF At(s, p) = " " /\ At(s, p + 1) \in NonZero THEN 2 ELSE 0

\* the (month alternative, day alternative) pairs that match, and the one
\* the backtracking matcher finds first
Matches(s) ==
    {m \in (1..3) \X (1..5) :
        /\ MonthAlt(s, 5, m[1]) > 0
        /\ DayAlt(s, 5 + MonthAlt(s, 5, m[1]), m[2]) > 0}

FirstMatch(s) ==
    CHOOSE m \in Matches(s) :
        \A o \in Matches(s) : m[1] < o[1] \/ (m[1] = o[1] /\ m[2] <= o[2])

IsLeap(y) == y % 4 = 0 /\ (y % 100 # 0 \/ y % 400 = 0)

DaysInMonth(y, m) ==
    IF m = 2 THEN (IF IsLeap(y) THEN 29 ELSE 28)
    ELSE IF m \in {4, 6, 9, 11} THEN 30 ELSE 31

ValueError == [ok |-> FALSE, date |-> <<0, 0, 0>>]

Strptime(s) ==
    IF YearLen(s) = 0 \/ Matches(s) = {} THEN ValueError
    ELSE LET ml == MonthAlt(s, 5, FirstMatch(s)[1])
             dl == DayAlt(s, 5 + ml, FirstMatch(s)[2])
             y == IntOf(SubSeq(s, 1, 4))
             m == IntOf(SubSeq(s, 5, 4 + ml))
             dtxt == SubSeq(s, 5 + ml, 4 + ml + dl)
             d == IntOf(IF dtxt[1] = " " THEN Tail(dtxt) ELSE dtxt)
         IN  IF 4 + ml + dl # Len(s) THEN ValueError      \* unconverted data remains
             ELSE IF y < 1 \/ d > DaysInMonth(y, m) THEN ValueError
             ELSE [ok |-> TRUE, date |-> <<y, m, d>>]

\* datetime.date comparison
DateLT(a, b) ==
    \/ a[1] < b[1]
    \/ a[1] = b[1] /\ a[2] < b[2]
    \/ a[1] = b[1] /\ a[2] = b[2] /\ a[3] < b[3]

\* variant: the start date itself left out (> for >=)
DateGT(a, b) == DateLT(b, a)

DateGE(a, b) == ~DateLT(a, b)

(***************************************************************************)
(* Ordering of state codes (Python string comparison), as the rank in the  *)
(* sorted list of the codes the model uses.                                *)
(***************************************************************************)
StateOrder == <<"AZ", "NY">>
Rank(st) == CHOOSE n \in DOMAIN StateOrder : StateOrder[n] = st
StateLT(a, b) == Rank(a) < Rank(b)

\* the elements of the finite set S of naturals, ascending
Ascending(S) ==
    [j \in 1..Cardinality(S) |-> CHOOSE k \in S : Cardinality({m \in S : m < k}) = j - 1]

\* variant: duplicates dropped, order of first appearance kept (no sort)
NpUniqueUnsorted(locs) ==
    LET firsts == {k \in DOMAIN locs : \A j \in 1..(k - 1) : locs[j] # locs[k]}
    IN  [j \in DOMAIN Ascending(firsts) |-> locs[Ascending(firsts)[j]]]

\* np.unique of a list of state codes: sorted, without duplicates
NpUnique(locs) ==
    LET S == {locs[n] : n \in DOMAIN locs}
    IN  [j \in 1..Cardinality(S) |->
            CHOOSE st \in S : Cardinality({t \in S : StateLT(t, st)}) = j - 1]

(***************************************************************************)
(* The DataFrame: the MultiIndex (list of (state, date)), the column names *)
(* in order, and one list of cells per column.                             *)
(***************************************************************************)
NoFrame == [index |-> <<>>, columns |-> <<>>, col |-> <<>>]

\* lines 102-103
DataFrame(dat, idx) ==
    [index |-> idx,
     columns |-> [n \in DOMAIN keys |-> keys[n][1]],
     col |-> dat]

\* variant: sorted by date alone, the remaining level left as it came
SortsBeforeDateOnly(idx, j, k) ==
    \/ DateLT(idx[j][2], idx[k][2])
    \/ idx[j][2] = idx[k][2] /\ j < k

\* rows before row k in df.sort_index(level=1): by date, then by the
\* remaining level (state), rows with equal keys kept in their order
SortsBefore(idx, j, k) ==
    \/ DateLT(idx[j][2], idx[k][2])
    \/ idx[j][2] = idx[k][2] /\ StateLT(idx[j][1], idx[k][1])
    \/ idx[j] = idx[k] /\ j < k

\* line 104
SortIndex(d) ==
    LET n == Len(d.index)
        pos(k) == 1 + Cardinality({j \in 1..n : SortsBefore(d.index, j, k)})
        src == [p \in 1..n |-> CHOOSE k \in 1..n : pos(k) = p]
    IN  [index |-> [p \in 1..n |-> d.index[src[p]]],
         columns |-> d.columns,
         col |-> [c \in DOMAIN d.col |-> [p \in 1..n |-> d.col[c][src[p]]]]]

\* df.index.unique(level=0): the states in order of first appearance
UniqueLevel0(d) ==
    LET n == Len(d.index)
        firsts == {k \in 1..n : \A j \in 1..(k - 1) : d.index[j][1] # d.index[k][1]}
        asc == Ascending(firsts)
    IN  [j \in DOMAIN asc |-> d.index[asc[j]][1]]

\* the rows of df.loc[state], as positions in df, in table order
RowsOf(d, st) == Ascending({k \in DOMAIN d.index : d.index[k][1] = st})

\* df.loc[state][column]
Loc(d, st, c) == [j \in DOMAIN RowsOf(d, st) |-> d.col[c][RowsOf(d, st)[j]]]

\* np.diff
NpDiff(a) == [j \in 1..(Len(a) - 1) |-> Sub(a[j + 1], a[j])]

\* variant: the difference taken along the whole table, not within the state
NewCasesOfWholeTable(d, st) ==
    LET rows == RowsOf(d, st)
    IN  [j \in DOMAIN rows |->
            IF j = 1 THEN Num(0)
            ELSE Sub(d.col["cum_positive"][rows[j]], d.col["cum_positive"][rows[j] - 1])]

\* lines 109-110: zeros, then new_cases[1:] = diff
NewCasesOf(d, st) ==
    LET cum == Loc(d, st, "cum_positive")
        zeros == [j \in 1..Len(cum) |-> Num(0)]
    IN  [j \in 1..Len(cum) |-> IF j = 1 THEN zeros[j] ELSE NpDiff(cum)[j - 1]]

\* line 111: df.loc[state, column] = values; a new column starts as NaN
SetLoc(d, st, c, values) ==
    LET rows == RowsOf(d, st)
        old == IF c \in DOMAIN d.col THEN d.col[c]
               ELSE [k \in DOMAIN d.index |-> NaN]
        new == [k \in DOMAIN d.index |->
                   IF d.index[k][1] = st
                   THEN values[CHOOSE j \in DOMAIN rows : rows[j] = k]
                   ELSE old[k]]
    IN  [index |-> d.index,
         columns |-> IF c \in DOMAIN d.col THEN d.columns ELSE Append(d.columns, c),
         col |-> [x \in DOMAIN d.col \cup {c} |-> IF x = c THEN new ELSE d.col[x]]]

\* variant: a truthiness test in place of "is not None" (0 taken as missing)
CellTruthy(entry, field) ==
    IF field \in DOMAIN entry
    THEN (IF entry[field] # None /\ entry[field] # Num(0) THEN entry[field] ELSE NaN)
    ELSE NaN

\* lines 91-97: the cell of one column for one entry
Cell(entry, field) ==
    IF field \in DOMAIN entry
    THEN (IF entry[field] # None THEN entry[field] ELSE NaN)
    ELSE NaN

(***************************************************************************)
(* Inputs: entries of the feed.  An entry is a JSON object: a function     *)
(* from the field names it has to their values.                            *)
(***************************************************************************)
Entry(st, ds, flds) ==
    [f \in {"state", "date"} \cup DOMAIN flds |->
        IF f = "state" THEN st ELSE IF f = "date" THEN ds ELSE flds[f]]

NoFields == [f \in {} |-> None]
Fields1(f, v) == [x \in {f} |-> v]

SeqsUpTo(S, n) == UNION {[1..k -> S] : k \in 0..n}

\* str(entry['date']) of 20200201 and 20200202
Feb01 == <<"2", "0", "2", "0", "0", "2", "0", "1">>
Feb02 == <<"2", "0", "2", "0", "0", "2", "0", "2">>

(***************************************************************************)
(* ExtractDataFrame                                                        *)
(***************************************************************************)
NoReturn == [returned |-> FALSE, df |-> NoFrame, locs |-> <<>>]

\* variant: a record whose date does not parse is skipped
LoopEntrySkipsBadDate ==
    /\ pc = "loop"
    /\ i <= Len(json_data)
    /\ LET entry == json_data[i]
           state == entry["state"]
           parsed == Strptime(entry["date"])
       IN  IF ~parsed.ok
           THEN /\ i' = i + 1
                /\ UNCHANGED <<pc, indices, data, all_locations>>
           ELSE /\ all_locations' = Append(all_locations, state)
                /\ IF DateGE(parsed.date, start_date)
                   THEN /\ indices' = Append(indices, <<state, parsed.date>>)
                        /\ data' = [c \in Columns |->
                                       Append(data[c], Cell(entry, SourceOf(c)))]
                   ELSE UNCHANGED <<indices, data>>
                /\ i' = i + 1
                /\ pc' = pc
    /\ UNCHANGED <<json_data, start_date, df, todo, ret, run, prev>>
    /\ UNCHANGED fetchVars

\* one iteration of the loop of lines 82-97; strptime's ValueError is not
\* caught and ends the call
LoopEntry ==
    /\ pc = "loop"
    /\ i <= Len(json_data)
    /\ LET entry == json_data[i]
           state == entry["state"]
           parsed == Strptime(entry["date"])
       IN  IF ~parsed.ok
           THEN /\ pc' = "raised"
                /\ UNCHANGED <<i, indices, data, all_locations>>
           ELSE /\ all_locations' = Append(all_locations, state)
                /\ IF DateGE(parsed.date, start_date)
                   THEN /\ indices' = Append(indices, <<state, parsed.date>>)
                        /\ data' = [c \in Columns |->
                                       Append(data[c], Cell(entry, SourceOf(c)))]
                   ELSE UNCHANGED <<indices, data>>
                /\ i' = i + 1
                /\ pc' = pc
    /\ UNCHANGED <<json_data, start_date, df, todo, ret, run, prev>>
    /\ UNCHANGED fetchVars

\* lines 99-104, and the iterator of line 107
BuildFrame ==
    /\ pc = "loop"
    /\ i > Len(json_data)
    /\ all_locations' = NpUnique(all_locations)
    /\ df' = SortIndex(DataFrame(data, indices))
    /\ todo' = UniqueLevel0(df')
    /\ pc' = "newcases"
    /\ UNCHANGED <<json_data, start_date, i, indices, data, ret, run, prev>>
    /\ UNCHANGED fetchVars

\* one iteration of the loop of lines 107-111
NewCases ==
    /\ pc = "newcases"
    /\ todo # <<>>
    /\ df' = SetLoc(df, Head(todo), "new_cases", NewCasesOf(df, Head(todo)))
    /\ todo' = Tail(todo)
    /\ UNCHANGED <<json_data, start_date, pc, i, indices, data, all_locations, ret, run, prev>>
    /\ UNCHANGED fetchVars

\* line 114
Return ==
    /\ pc = "newcases"
    /\ todo = <<>>
    /\ ret' = [returned |-> TRUE, df |-> df, locs |-> all_locations]
    /\ pc' = "done"
    /\ UNCHANGED <<json_data, start_date, i, indices, data, all_locations, df, todo, run, prev>>
    /\ UNCHANGED fetchVars


(***************************************************************************)
(* A second call on the same records in another order (run 2), keeping     *)
(* what the first call returned.                                           *)
(***************************************************************************)
Reorderings(n) == {p \in [1..n -> 1..n] : \A a, b \in 1..n : p[a] = p[b] => a = b}

Rerun ==
    /\ pc = "done"
    /\ run = 1
    /\ \E p \in Reorderings(Len(json_data)) :
           json_data' = [n \in DOMAIN json_data |-> json_data[p[n]]]
    /\ prev' = [input |-> json_data, out |-> ret]
    /\ run' = 2
    /\ pc' = "loop"
    /\ i' = 1
    /\ indices' = <<>>
    /\ data' = [c \in Columns |-> <<>>]
    /\ all_locations' = <<>>
    /\ df' = NoFrame
    /\ todo' = <<>>
    /\ ret' = NoReturn
    /\ UNCHANGED start_date
    /\ UNCHANGED fetchVars

(***************************************************************************)
(* GetData                                                                 *)
(***************************************************************************)
DigitChar(n) ==
    CASE n = 0 -> "0" [] n = 1 -> "1" [] n = 2 -> "2" [] n = 3 -> "3"
      [] n = 4 -> "4" [] n = 5 -> "5" [] n = 6 -> "6" [] n = 7 -> "7"
      [] n = 8 -> "8" [] n = 9 -> "9"

\* n as w decimal digits, zero padded
RECURSIVE Padded(_, _)
Padded(n, w) == IF w = 0 THEN <<>>
                ELSE Append(Padded(n \div 10, w - 1), DigitChar(n % 10))

\* date.strftime('%Y_%m_%d')
Strftime(d) == Padded(d[1], 4) \o <<"_">> \o Padded(d[2], 2) \o <<"_">> \o Padded(d[3], 2)

\* line 27
FileName(filepath, d) ==
    filepath \o <<"covidtracking_data_">> \o Strftime(d) \o <<".json">>

\* the day after d
Tomorrow(d) ==
    IF d[3] < DaysInMonth(d[1], d[2]) THEN <<d[1], d[2], d[3] + 1>>
    ELSE IF d[2] < 12 THEN <<d[1], d[2] + 1, 1>>
    ELSE <<d[1] + 1, 1, 1>>

\* A text: well formed or not; one of several layouts of the same data.
NoFile == [exists |-> FALSE, wf |-> FALSE, layout |-> "", data |-> <<>>]
Text(wf, layout, d) == [exists |-> TRUE, wf |-> wf, layout |-> layout, data |-> d]

\* json.loads / json.load
Loads(t) == IF t.wf THEN [ok |-> TRUE, data |-> t.data] ELSE [ok |-> FALSE, data |-> <<>>]
\* json.dump: the compact layout of the json module
Dumps(d) == Text(TRUE, "dump", d)

\* ---- inputs of the GetData model
\* the filepath arguments: the default './' and another directory
Paths == {<<".", "/">>, <<"c", "/">>}
\* the clock runs over these days (a leap day and a month's end)
FirstDay == <<2020, 2, 29>>
LastDay == <<2020, 3, 1>>
\* the run_date arguments: None, a date of its own, or a date the clock reaches
NoDate == [given |-> FALSE, date |-> <<0, 0, 0>>]
RunDateArgs == {NoDate} \cup {[given |-> TRUE, date |-> d] : d \in {<<2020, 2, 1>>, LastDay}}
CallDates == {<<2020, 2, 1>>, FirstDay, LastDay}
Files == {FileName(p, d) : p \in Paths, d \in CallDates}

\* what the feed may answer: an empty array, an array of one entry in a
\* layout json.dump does not produce, a page that is not JSON, or no answer
Feeds ==
    {[up |-> TRUE, text |-> Text(TRUE, "dump", <<>>)],
     [up |-> TRUE, text |-> Text(TRUE, "pretty", <<Entry("AZ", Feb01, Fields1("positive", Num(1)))>>)],
     [up |-> TRUE, text |-> Text(FALSE, "html", <<>>)],
     [up |-> FALSE, text |-> NoFile]}

NoCall ==
    [called |-> FALSE, filepath |-> <<>>, date |-> <<0, 0, 0>>, file |-> <<>>,
     before |-> NoFile, requested |-> FALSE, response |-> NoFile,
     raised |-> FALSE, data |-> <<>>]

\* variant: the cache is never consulted, every call downloads and writes
GetDataCallAlwaysDownload(filepath, run_date) ==
    LET d == IF run_date.given THEN run_date.date ELSE today
        filename == FileName(filepath, d)
        parsed == Loads(feed.text)
        failed == ~feed.up \/ ~parsed.ok
    IN  [call |-> [called |-> TRUE, filepath |-> filepath, date |-> d, file |-> filename,
                   before |-> fs[filename], requested |-> TRUE,
                   response |-> feed.text,
                   raised |-> failed, data |-> IF failed THEN <<>> ELSE parsed.data],
         writes |-> ~failed,
         fs |-> IF ~failed THEN [fs EXCEPT ![filename] = Dumps(parsed.data)] ELSE fs]

\* variant: the downloaded data is returned without being written
GetDataCallNoWrite(filepath, run_date) ==
    LET d == IF run_date.given THEN run_date.date ELSE today
        filename == FileName(filepath, d)
        hit == fs[filename].exists
        text == IF hit THEN fs[filename] ELSE feed.text
        parsed == Loads(text)
        failed == IF hit THEN ~parsed.ok ELSE (~feed.up \/ ~parsed.ok)
    IN  [call |-> [called |-> TRUE, filepath |-> filepath, date |-> d, file |-> filename,
                   before |-> fs[filename], requested |-> ~hit,
                   response |-> IF hit THEN NoFile ELSE feed.text,
                   raised |-> failed, data |-> IF failed THEN <<>> ELSE parsed.data],
         writes |-> FALSE,
         fs |-> fs]

\* what the call observed; the result written to the variables
GetDataCall(filepath, run_date) ==
    LET d == IF run_date.given THEN run_date.date ELSE today
        filename == FileName(filepath, d)
        hit == fs[filename].exists
        text == IF hit THEN fs[filename] ELSE feed.text
        parsed == Loads(text)
        failed == IF hit THEN ~parsed.ok ELSE (~feed.up \/ ~parsed.ok)
        writes == ~hit /\ ~failed
    IN  [call |-> [called |-> TRUE, filepath |-> filepath, date |-> d, file |-> filename,
                   before |-> fs[filename], requested |-> ~hit,
                   response |-> IF hit THEN NoFile ELSE feed.text,
                   raised |-> failed, data |-> IF failed THEN <<>> ELSE parsed.data],
         writes |-> writes,
         fs |-> IF writes THEN [fs EXCEPT ![filename] = Dumps(parsed.data)] ELSE fs]

GetData ==
    \E filepath \in Paths, run_date \in RunDateArgs :
        LET c == GetDataCall(filepath, run_date)
            d == c.call.date
        IN  /\ last' = c.call
            /\ fs' = c.fs
            /\ opened_w' = IF c.writes
                           THEN [opened_w EXCEPT ![filepath][d] = @ + 1]
                           ELSE opened_w
            /\ first' = IF ~c.call.raised /\ ~first[filepath][d].set
                        THEN [first EXCEPT ![filepath][d] = [set |-> TRUE, data |-> c.call.data]]
                        ELSE first
            /\ UNCHANGED <<feed, today>>
            /\ UNCHANGED <<extractVars, run, prev>>

\* the remote feed answers something else, or stops answering
FeedChange ==
    /\ \E f \in Feeds : f # feed /\ feed' = f
    /\ UNCHANGED <<fs, today, last, opened_w, first>>
    /\ UNCHANGED <<extractVars, run, prev>>

\* midnight
Tick ==
    /\ DateLT(today, LastDay)
    /\ today' = Tomorrow(today)
    /\ UNCHANGED <<fs, feed, last, opened_w, first>>
    /\ UNCHANGED <<extractVars, run, prev>>

(***************************************************************************)
(* Initial states and specifications                                       *)
(***************************************************************************)
\* the longest record list of each specification
MaxRecords == 3
MaxRecordsMetrics == 2
MaxRecordsDates == 3
MaxRecordsOrder == 2

States == {StateOrder[n] : n \in DOMAIN StateOrder}

\* GetData not in use
FetchIdle ==
    /\ fs = [f \in Files |-> NoFile]
    /\ feed = [up |-> FALSE, text |-> NoFile]
    /\ today = FirstDay
    /\ last = NoCall
    /\ opened_w = [p \in Paths |-> [d \in CallDates |-> 0]]
    /\ first = [p \in Paths |-> [d \in CallDates |-> [set |-> FALSE, data |-> <<>>]]]

\* ExtractDataFrame not in use
ExtractIdle ==
    /\ json_data = <<>>
    /\ start_date = <<2020, 2, 1>>
    /\ pc = "idle"
    /\ i = 1
    /\ indices = <<>>
    /\ data = [c \in Columns |-> <<>>]
    /\ all_locations = <<>>
    /\ df = NoFrame
    /\ todo = <<>>
    /\ ret = NoReturn
    /\ run = 1
    /\ prev = [input |-> <<>>, out |-> NoReturn]

\* ExtractDataFrame called with one of the record lists and start dates
ExtractStart(lists, starts) ==
    /\ json_data \in lists
    /\ start_date \in starts
    /\ pc = "loop"
    /\ i = 1
    /\ indices = <<>>
    /\ data = [c \in Columns |-> <<>>]
    /\ all_locations = <<>>
    /\ df = NoFrame
    /\ todo = <<>>
    /\ ret = NoReturn
    /\ run = 1
    /\ prev = [input |-> <<>>, out |-> NoReturn]

\* ---- Spec: records of two states over two days, 'positive' reported or not
MainEntries ==
    {Entry(st, ds, flds) :
        st \in States, ds \in {Feb01, Feb02},
        flds \in {NoFields, Fields1("positive", Num(1)), Fields1("positive", Num(3))}}
MainStarts == {<<2020, 2, 1>>, <<2020, 2, 2>>}

Init == ExtractStart(SeqsUpTo(MainEntries, MaxRecords), MainStarts) /\ FetchIdle
Next == LoopEntry \/ BuildFrame \/ NewCases \/ Return
Spec == Init /\ [][Next]_vars

\* ---- SpecMetrics: entries with no metric field, with one of the ten source
\* fields reported as 0, or with hospitalizedCurrently null or 2
SourceFields == {keys[n][2] : n \in DOMAIN keys}
MetricsEntries ==
    {Entry("AZ", ds, flds) :
        ds \in {Feb01, Feb02},
        flds \in {NoFields} \cup
                 {Fields1(f, Num(0)) : f \in SourceFields} \cup
                 {Fields1("hospitalizedCurrently", v) : v \in {None, Num(2)}}}

InitMetrics == ExtractStart(SeqsUpTo(MetricsEntries, MaxRecordsMetrics), MainStarts) /\ FetchIdle
SpecMetrics == InitMetrics /\ [][Next]_vars

\* ---- SpecDates: date strings strptime accepts, accepts leniently, or rejects
Feb1Short == <<"2", "0", "2", "0", "0", "2", "1">>                  \* '2020021'
Feb11Short == <<"2", "0", "2", "0", "2", "1", "1">>                 \* '2020211'
Feb30 == <<"2", "0", "2", "0", "0", "2", "3", "0">>                 \* '20200230'
Feb01Long == <<"2", "0", "2", "0", "0", "2", "0", "1", "1">>        \* '202002011'
Feb01Iso == <<"2", "0", "2", "0", "-", "0", "2", "-", "0", "1">>    \* '2020-02-01'
YearMonth == <<"2", "0", "2", "0", "0", "2">>                       \* '202002'
DateStrings == {Feb01, Feb02, Feb1Short, Feb11Short, Feb30, Feb01Long, Feb01Iso, YearMonth, <<>>}
DatesEntries == {Entry("AZ", ds, Fields1("positive", Num(1))) : ds \in DateStrings}

InitDates == ExtractStart(SeqsUpTo(DatesEntries, MaxRecordsDates), MainStarts) /\ FetchIdle
SpecDates == InitDates /\ [][Next]_vars

\* ---- SpecOrder: a call, then a call on a reordering of the same records
OrderEntries ==
    {Entry(st, ds, flds) :
        st \in States, ds \in {Feb01, Feb02},
        flds \in {NoFields, Fields1("positive", Num(1)), Fields1("positive", Num(3))}}

InitOrder == ExtractStart(SeqsUpTo(OrderEntries, MaxRecordsOrder), MainStarts) /\ FetchIdle
NextOrder == LoopEntry \/ BuildFrame \/ NewCases \/ Return \/ Rerun
SpecOrder == InitOrder /\ [][NextOrder]_vars

\* ---- SpecFetch: GetData calls, feed changes and midnights in any order
InitFetch ==
    /\ ExtractIdle
    /\ fs = [f \in Files |-> NoFile]
    /\ feed \in Feeds
    /\ today = FirstDay
    /\ last = NoCall
    /\ opened_w = [p \in Paths |-> [d \in CallDates |-> 0]]
    /\ first = [p \in Paths |-> [d \in CallDates |-> [set |-> FALSE, data |-> <<>>]]]
NextFetch == GetData \/ FeedChange \/ Tick
SpecFetch == InitFetch /\ [][NextFetch]_vars

(***************************************************************************)
(* Properties                                                              *)
(***************************************************************************)
Returned == pc = "done" /\ ret.returned
Table == ret.df
TableRows == DOMAIN Table.index
RowState(k) == Table.index[k][1]
RowDate(k) == Table.index[k][2]
RowCell(c, k) == Table.col[c][k]

\* a date as a number that orders as the calendar does
DayNumber(d) == d[1] * 10000 + d[2] * 100 + d[3]

\* the date of a record whose date string is eight digits YYYYMMDD
PlainDate(entry) ==
    <<IntOf(SubSeq(entry["date"], 1, 4)), IntOf(SubSeq(entry["date"], 5, 6)),
      IntOf(SubSeq(entry["date"], 7, 8))>>

\* the records of the input that the start date keeps
Qualifying == {n \in DOMAIN json_data : DayNumber(PlainDate(json_data[n])) >= DayNumber(start_date)}

\* row j is the row of the same state that precedes row k in the table
PrecedesInState(j, k) ==
    /\ j < k
    /\ RowState(j) = RowState(k)
    /\ \A m \in (j + 1)..(k - 1) : RowState(m) # RowState(k)

\* the difference of two cumulative values, missing if either is
Difference(cur, before) ==
    IF cur.k = "num" /\ before.k = "num" THEN Num(cur.v - before.v) ELSE NaN

\* C1: in the returned table every row but the first of its state has
\* new_cases = its cum_positive minus the cum_positive of the preceding row of
\* the same state (which is not dated later), missing if either is missing.
NewCasesIsDifferenceWithinState ==
    Returned =>
        \A k \in TableRows : \A j \in TableRows :
            PrecedesInState(j, k) =>
                /\ DayNumber(RowDate(j)) <= DayNumber(RowDate(k))
                /\ RowCell("new_cases", k) =
                       Difference(RowCell("cum_positive", k), RowCell("cum_positive", j))

\* a state's two rows with a row of the other state between them, whose
\* cum_positive is not the one subtracted
WitnessInterleavedDifference ==
    /\ Returned
    /\ \E j, k \in TableRows :
           /\ PrecedesInState(j, k) /\ k > j + 1
           /\ RowCell("new_cases", k) = Num(2)
           /\ RowCell("cum_positive", j + 1) = Num(3)

\* C2 (as claimed): every row of a state that no row of the state predates has
\* new_cases = 0, and a state with one qualifying date has exactly one row.
FirstRowOfStateIsZero ==
    Returned =>
        /\ \A k \in TableRows :
               (\A j \in TableRows :
                    RowState(j) = RowState(k) => DayNumber(RowDate(k)) <= DayNumber(RowDate(j)))
               => RowCell("new_cases", k) = Num(0)
        /\ \A st \in States :
               Cardinality({PlainDate(json_data[n]) : n \in {q \in Qualifying : json_data[q]["state"] = st}}) = 1
               => Cardinality({k \in TableRows : RowState(k) = st}) = 1

\* C3: the keys of the returned table are exactly the (state, date) pairs of
\* the records dated on or after start_date.
KeySetIsQualifyingRecords ==
    Returned =>
        {Table.index[k] : k \in TableRows}
            = {<<json_data[n]["state"], PlainDate(json_data[n])>> : n \in Qualifying}

\* a record dated start_date itself is in the table, and a state whose
\* records are all earlier has no row
WitnessBoundaryAndFilteredState ==
    /\ Returned
    /\ \E k \in TableRows : RowDate(k) = start_date
    /\ \E n \in DOMAIN json_data :
           /\ DayNumber(PlainDate(json_data[n])) < DayNumber(start_date)
           /\ \A k \in TableRows : RowState(k) # json_data[n]["state"]

\* C4: the returned region list is strictly ascending and holds exactly the
\* states of all records, whatever start_date.
RegionListIsSortedSetOfAllStates ==
    Returned =>
        /\ \A a, b \in DOMAIN ret.locs : a < b => Rank(ret.locs[a]) < Rank(ret.locs[b])
        /\ {ret.locs[a] : a \in DOMAIN ret.locs} = {json_data[n]["state"] : n \in DOMAIN json_data}

\* records out of order with a state repeated, one state wholly before
\* start_date: both states are listed, the table has nothing
WitnessRegionOutsideTable ==
    /\ Returned
    /\ Len(json_data) = 3
    /\ json_data[1]["state"] = "NY" /\ json_data[2]["state"] = "AZ" /\ json_data[3]["state"] = "NY"
    /\ Qualifying = {}
    /\ ret.locs = <<"AZ", "NY">>
    /\ TableRows = {}

\* C5 (as claimed): the key (state, date) is unique in the returned table and
\* the rows of each state are in strictly ascending date order.
KeysUniqueAndStrictlyAscending ==
    Returned =>
        \A j, k \in TableRows :
            (j < k /\ RowState(j) = RowState(k)) =>
                DayNumber(RowDate(j)) < DayNumber(RowDate(k))

\* the cell the claim gives a record for a source field
ExpectedCell(entry, field) ==
    IF field \notin DOMAIN entry THEN NaN
    ELSE IF entry[field] = None THEN NaN
    ELSE entry[field]

\* row k of the table is the row of record n
RowIsRecord(k, n) ==
    /\ Table.index[k] = <<json_data[n]["state"], PlainDate(json_data[n])>>
    /\ \A x \in DOMAIN keys : RowCell(keys[x][1], k) = ExpectedCell(json_data[n], keys[x][2])

\* C6: the call returns without an error, and the rows of the table are, one
\* for one, the qualifying records, each metric cell holding the record's
\* value if the field is present and not null and the missing marker otherwise.
CellsCopyPresentValuesElseMissing ==
    /\ pc # "raised"
    /\ Returned =>
           /\ Cardinality(TableRows) = Cardinality(Qualifying)
           /\ \A n \in Qualifying :
                  Cardinality({k \in TableRows : RowIsRecord(k, n)})
                      = Cardinality({m \in Qualifying :
                                        /\ json_data[m]["state"] = json_data[n]["state"]
                                        /\ PlainDate(json_data[m]) = PlainDate(json_data[n])
                                        /\ \A x \in DOMAIN keys :
                                               ExpectedCell(json_data[m], keys[x][2])
                                                   = ExpectedCell(json_data[n], keys[x][2])})

\* a record reporting hospitalizedCurrently = 0 and a record with a null
\* hospitalizedCurrently, both in the table
WitnessZeroAndNull ==
    /\ Returned
    /\ \E n, m \in Qualifying :
           /\ "hospitalizedCurrently" \in DOMAIN json_data[n]
           /\ json_data[n]["hospitalizedCurrently"] = Num(0)
           /\ "hospitalizedCurrently" \in DOMAIN json_data[m]
           /\ json_data[m]["hospitalizedCurrently"] = None
    /\ \E j, k \in TableRows :
           /\ RowCell("curr_hosp", j) = Num(0)
           /\ RowCell("curr_hosp", k) = NaN
           /\ RowCell("cum_hosp", j) = NaN

\* the records whose date string strptime rejects
Unparseable == {n \in DOMAIN json_data : ~Strptime(json_data[n]["date"]).ok}

NoSharedKey(records) ==
    \A a, b \in DOMAIN records :
        (records[a]["state"] = records[b]["state"] /\ records[a]["date"] = records[b]["date"])
            => a = b

\* C10: a call on a reordering (or on the same ordering again) of records with
\* distinct (state, date) returns the same table and the same region list.
ResultIndependentOfRecordOrder ==
    (run = 2 /\ Returned /\ NoSharedKey(json_data)) => ret = prev.out

\* two records of the same date, given in both orders
WitnessReorderedSameDate ==
    /\ run = 2
    /\ Returned
    /\ NoSharedKey(json_data)
    /\ Len(json_data) = 2
    /\ json_data[1] = prev.input[2]
    /\ json_data[1] # json_data[2]
    /\ Len(Table.index) = 2
    /\ RowDate(1) = RowDate(2)

\* the (filepath, date) pairs whose call created its cache file
Created == {k \in Paths \X CallDates : opened_w[k[1]][k[2]] > 0}

\* C7: a cache file that exists is never written again, and for a given
\* filepath at most one cache file is created for each date: every file is
\* the one file of one (filepath, date), opened for writing once.
CacheFileCreatedOnceNeverRewritten ==
    [][/\ \A f \in Files : fs[f].exists => fs'[f] = fs[f]
       /\ \A p \in Paths : \A d \in CallDates : opened_w'[p][d] <= 1
       /\ Cardinality({f \in Files : fs'[f].exists}) = Cardinality(Created')
       /\ \A k \in Created' : fs'[FileName(k[1], k[2])].exists]_vars

\* cache files of two dates made under one filepath, and a call for a date
\* whose file existed while the feed held other data
WitnessSecondCallAfterFeedChange ==
    /\ \E p \in Paths : \E d, e \in CallDates :
           d # e /\ opened_w[p][d] = 1 /\ opened_w[p][e] = 1
    /\ last.called
    /\ last.before.exists
    /\ feed.up /\ feed.text.wf
    /\ feed.text.data # fs[last.file].data

\* C8: a call that finds its cache file returns the data of that file and
\* sends no request; a call that finds none sends one, returns the data of
\* the response, and leaves a well-formed cache file holding that data; every
\* call returns what the first call for its filepath and date returned.
CacheHitReadsFileMissDownloadsAndStores ==
    last.called =>
        /\ last.requested = ~last.before.exists
        /\ last.before.exists =>
               /\ fs[last.file] = last.before
               /\ ~last.raised => last.data = last.before.data
        /\ (~last.before.exists /\ ~last.raised) =>
               /\ last.response.wf
               /\ last.data = last.response.data
               /\ fs[last.file].exists
               /\ fs[last.file].wf
               /\ fs[last.file].data = last.data
        /\ (~last.before.exists /\ last.raised) => ~fs[last.file].exists
        /\ ~last.raised =>
               /\ first[last.filepath][last.date].set
               /\ first[last.filepath][last.date].data = last.data

\* a call served from a file an earlier call wrote from a response in another
\* layout, the feed now holding other data
WitnessHitAfterStoredDownload ==
    /\ last.called
    /\ ~last.raised
    /\ ~last.requested
    /\ opened_w[last.filepath][last.date] = 1
    /\ last.data # <<>>
    /\ feed.up /\ feed.text.wf /\ feed.text.data = <<>>
====
